---- MODULE Spec2Model ----
(***************************************************************************)
(* Model of the OSPool one-year summary report                             *)
(* (email_1yr_ospool_report.py): the month-window partitioner              *)
(* get_timestamps, the classifier is_r1_institution, and the aggregation   *)
(* loop get_monthly_docs driven by main.                                   *)
(*                                                                         *)
(* Strings that the code lower-cases, splits or searches are sequences of  *)
(* one-character strings; strings that are only compared are TLA+ strings. *)
(***************************************************************************)
EXTENDS Integers, Sequences, FiniteSets, TLC

(***************************************************************************)
(* Bounds of the model                                                     *)
(***************************************************************************)
\* 'now' ranges over every calendar day of the years FirstYear..LastYear
FirstYear == 2023
LastYear == 2025
\* number of windows the aggregation loop iterates over
NumWindows == 2
\* amount of data the event store returns over one run: the number of
\* buckets plus the number of daily-totals results that hold sums
MaxData == 2
\* number of distinct argument tuples is_r1_institution is called with
MaxCalls == 4

(***************************************************************************)
(* Program constants                                                       *)
(***************************************************************************)
DAYS == 365

None == "None"
True == "True"
False == "False"

(***************************************************************************)
(* Python str operations on character sequences                            *)
(***************************************************************************)
UpperChars ==
    <<"A","B","C","D","E","F","G","H","I","J","K","L","M",
      "N","O","P","Q","R","S","T","U","V","W","X","Y","Z">>
LowerChars ==
    <<"a","b","c","d","e","f","g","h","i","j","k","l","m",
      "n","o","p","q","r","s","t","u","v","w","x","y","z">>

LowerChar(c) ==
    IF \E i \in 1..26 : UpperChars[i] = c
    THEN LowerChars[CHOOSE i \in 1..26 : UpperChars[i] = c]
    ELSE c

\* str.lower()
Lower(s) == [i \in 1..Len(s) |-> LowerChar(s[i])]

\* sub in s
Contains(s, sub) ==
    \E i \in 1..(Len(s) - Len(sub) + 1) : SubSeq(s, i, i + Len(sub) - 1) = sub

\* s.split(ch)[-1]
SplitLast(s, ch) ==
    IF \E i \in 1..Len(s) : s[i] = ch
    THEN LET p == CHOOSE i \in 1..Len(s) :
                      s[i] = ch /\ \A j \in (i+1)..Len(s) : s[j] # ch
         IN SubSeq(s, p + 1, Len(s))
    ELSE s

\* s.split(ch, maxsplit=1)[0]
SplitFirst(s, ch) ==
    IF \E i \in 1..Len(s) : s[i] = ch
    THEN LET p == CHOOSE i \in 1..Len(s) :
                      s[i] = ch /\ \A j \in 1..(i-1) : s[j] # ch
         IN SubSeq(s, 1, p - 1)
    ELSE s

Max(a, b) == IF a >= b THEN a ELSE b

\* dict.get(k, default)
Get(d, k, default) == IF k \in DOMAIN d THEN d[k] ELSE default

\* d[k] = v
Put(d, k, v) == [x \in (DOMAIN d) \cup {k} |-> IF x = k THEN v ELSE d[x]]

(***************************************************************************)
(* datetime: calendar dates and their proleptic Gregorian ordinal          *)
(***************************************************************************)
IsLeap(y) == (y % 4 = 0) /\ ((y % 100 # 0) \/ (y % 400 = 0))

DaysInMonth(y, m) ==
    IF m = 2 THEN (IF IsLeap(y) THEN 29 ELSE 28)
    ELSE IF m \in {4, 6, 9, 11} THEN 30 ELSE 31

DaysBeforeYear(y) ==
    (y - 1) * 365 + ((y - 1) \div 4) - ((y - 1) \div 100) + ((y - 1) \div 400)

RECURSIVE DaysBeforeMonth(_, _)
DaysBeforeMonth(y, m) ==
    IF m = 1 THEN 0 ELSE DaysBeforeMonth(y, m - 1) + DaysInMonth(y, m - 1)

\* datetime.toordinal(); differences of ordinals are timedelta days
Ord(dt) == DaysBeforeYear(dt.year) + DaysBeforeMonth(dt.year, dt.month) + dt.day

\* datetime(year, month, day) raises ValueError for a day outside the month
ValueError == [year |-> 0, month |-> 0, day |-> 0]

datetime(y, m, d) ==
    IF m \in 1..12 /\ d \in 1..DaysInMonth(y, m)
    THEN [year |-> y, month |-> m, day |-> d]
    ELSE ValueError

\* every valid value of NOW truncated to midnight
NowDates ==
    { [year |-> y, month |-> m, day |-> d] :
        y \in FirstYear..LastYear, m \in 1..12, d \in 1..31 }
    \ { dt \in [year : FirstYear..LastYear, month : 1..12, day : 1..31] :
            dt.day > DaysInMonth(dt.year, dt.month) }

VARIABLES
    NOW,          \* module constant NOW, truncated to the day
    ts_pc,        \* position inside get_timestamps
    dt_end,       \* get_timestamps local
    dt_end_day,   \* get_timestamps local
    dates         \* get_timestamps local: OrderedDict as a sequence of
                  \* [key |-> datestr, start |-> dt, end |-> dt]

ts_vars == <<NOW, ts_pc, dt_end, dt_end_day, dates>>

\* get_timestamps.prev_month with a forgotten year decrement in January
prev_month_same_year(dt, end_day) ==
    LET month == IF dt.month = 1 THEN 12 ELSE dt.month - 1
        day == IF month \in {9, 4, 6, 11} /\ dt.day > 30 THEN 30
               ELSE IF month = 2 /\ dt.day > 28 THEN 28
               ELSE end_day
    IN datetime(dt.year, month, day)

\* get_timestamps.prev_month that keeps a clipped day instead of end_day
prev_month_keep_day(dt, end_day) ==
    LET year == IF dt.month = 1 THEN dt.year - 1 ELSE dt.year
        month == IF dt.month = 1 THEN 12 ELSE dt.month - 1
        day == IF month \in {9, 4, 6, 11} /\ dt.day > 30 THEN 30
               ELSE IF month = 2 /\ dt.day > 28 THEN 28
               ELSE dt.day
    IN datetime(year, month, day)

\* get_timestamps.prev_month without the clipping of lines 277-280
prev_month_unclipped(dt, end_day) ==
    LET year == IF dt.month = 1 THEN dt.year - 1 ELSE dt.year
        month == IF dt.month = 1 THEN 12 ELSE dt.month - 1
    IN datetime(year, month, end_day)

prev_month(dt, end_day) ==
    LET year == IF dt.month = 1 THEN dt.year - 1 ELSE dt.year
        month == IF dt.month = 1 THEN 12 ELSE dt.month - 1
        day == IF month \in {9, 4, 6, 11} /\ dt.day > 30 THEN 30
               ELSE IF month = 2 /\ dt.day > 28 THEN 28
               ELSE end_day
    IN datetime(year, month, day)

\* the loop condition with a span one day longer than DAYS
ts_continue_longer(end, now) == Ord(end) > Ord(now) - (DAYS + 1)

\* the loop condition with >= in place of >
ts_continue_ge(end, now) == Ord(end) >= Ord(now) - DAYS

\* while dt_end > dt_stop, with dt_stop = dt_end0 - timedelta(days=DAYS)
ts_continue(end, now) == Ord(end) > Ord(now) - DAYS

\* dates[datestr] = (dt_start, dt_end) on an OrderedDict: a new key is
\* appended, an existing key keeps its position
dates_set(d, key, start, end) ==
    IF \E i \in 1..Len(d) : d[i].key = key
    THEN [i \in 1..Len(d) |->
             IF d[i].key = key THEN [key |-> key, start |-> start, end |-> end]
             ELSE d[i]]
    ELSE Append(d, [key |-> key, start |-> start, end |-> end])

\* strftime('%Y-%m-%d'): zero-padded year, month and day
strftime(dt) == <<dt.year, dt.month, dt.day>>

TsInit ==
    /\ NOW \in NowDates
    /\ ts_pc = "start"
    /\ dt_end = ValueError
    /\ dt_end_day = 0
    /\ dates = <<>>

\* lines 285-287
TsBegin ==
    /\ ts_pc = "start"
    /\ dt_end' = datetime(NOW.year, NOW.month, NOW.day)
    /\ dt_end_day' = NOW.day
    /\ dates' = <<>>
    /\ ts_pc' = "loop"
    /\ UNCHANGED NOW

\* one iteration of the while loop, lines 288-292
TsIterate ==
    /\ ts_pc = "loop"
    /\ ts_continue(dt_end, NOW)
    /\ LET dt_start == prev_month(dt_end, dt_end_day)
       IN IF dt_start = ValueError
          THEN /\ ts_pc' = "ValueError"
               /\ UNCHANGED <<dt_end, dates>>
          ELSE /\ dates' = dates_set(dates, strftime(dt_start), dt_start, dt_end)
               /\ dt_end' = dt_start
               /\ ts_pc' = "loop"
    /\ UNCHANGED <<NOW, dt_end_day>>

\* loop exit and return, line 294
TsReturn ==
    /\ ts_pc = "loop"
    /\ ~ts_continue(dt_end, NOW)
    /\ ts_pc' = "done"
    /\ UNCHANGED <<NOW, dt_end, dt_end_day, dates>>


(***************************************************************************)
(* Reference tables loaded at import (lines 35-37)                         *)
(***************************************************************************)
UNKNOWN == <<"U","N","K","N","O","W","N">>
unknown == <<"u","n","k","n","o","w","n">>
Unknown == <<"U","n","k","n","o","w","n">>
EmptyStr == <<>>

\* the institution-id token of line 380
ID_TOKEN == <<"o","s","g","-","h","t","c",".","o","r","g","_">>

R1_RESEARCH_ACTIVITY == "Research 1: Very High Spending and Doctorate Production"
R2_RESEARCH_ACTIVITY == "Research 2: High Spending and Doctorate Production"

Univ(c) == <<"U","n","i","v"," ",c>>
FullId(c) == <<"i","i","d","/",c>>

\* the institutions served by the institution API. A record maps the keys
\* it has: one without "carnegie_metadata" has no Carnegie metadata.
Institutions ==
    { [name |-> Univ("A"), id |-> FullId("1"),
       carnegie_metadata |-> [classification2025 |-> R1_RESEARCH_ACTIVITY]],
      [name |-> Univ("B"), id |-> FullId("2"),
       carnegie_metadata |-> [classification2021 |-> R2_RESEARCH_ACTIVITY,
                              classification2025 |-> R2_RESEARCH_ACTIVITY]],
      [name |-> Univ("C"), id |-> FullId("3")],
      [name |-> Univ("D"), id |-> FullId("4"),
       carnegie_metadata |-> [control |-> "Public"]],
      [name |-> Univ("E"), id |-> FullId("5"),
       carnegie_metadata |-> [classification2021 |-> R1_RESEARCH_ACTIVITY]],
      [name |-> Unknown, id |-> FullId("6"),
       carnegie_metadata |-> [classification2025 |-> R2_RESEARCH_ACTIVITY]] }

\* get_institution_database: each institution under its id and its short id
INSTITUTION_DB ==
    [k \in UNION { {i.id, SplitLast(i.id, "/")} : i \in Institutions } |->
        CHOOSE i \in Institutions : k \in {i.id, SplitLast(i.id, "/")}]

\* get_topology_resource_data: lower-cased resource name -> record
RESOURCE_DATA ==
    (<<"s","x">> :> [institution |-> Univ("A"), institution_id |-> FullId("1")])
 @@ (<<"s","b">> :> [institution |-> Univ("B"), institution_id |-> FullId("2")])
 @@ (<<"s","n">> :> [institution |-> Univ("N"), institution_id |-> FullId("9")])
 @@ (<<"s","k">> :> [institution |-> Unknown, institution_id |-> FullId("6")])
 @@ ((ID_TOKEN \o <<"9">>) :>
        [institution |-> Univ("A"), institution_id |-> FullId("1")])

\* get_topology_project_data: lower-cased project name -> record
PROJECT_DATA ==
    (<<"p","y">> :> [institution |-> Univ("A"), institution_id |-> FullId("1")])
 @@ (<<"p","b">> :> [institution |-> Univ("B"), institution_id |-> FullId("2")])
 @@ (<<"p","k">> :> [institution |-> Unknown, institution_id |-> FullId("6")])
 @@ (<<"p","m">> :> [institution |-> Univ("M")])

(***************************************************************************)
(* Query results returned by the event store                               *)
(***************************************************************************)
\* bucket keys of the "users" aggregation
UserKeys ==
    { <<"A","l">>, <<"a","l">>, <<"A","L","@","x">>, UNKNOWN }

\* bucket keys of the "projects" aggregation
ProjectKeys ==
    { <<"P","y">>, <<"p","b">>, <<"p","k">>, <<"p","m">>,
      <<"p","x">>, <<"P","x">>, UNKNOWN, unknown }

\* bucket keys of the "resources" aggregation
ResourceKeys ==
    { <<"S","x">>, <<"s","b">>, <<"s","n">>, <<"s","k">>,
      <<"s","u">>, <<"2">>, UNKNOWN, unknown }

\* bucket keys of the "resource_ids" aggregation
ResourceIdKeys ==
    { ID_TOKEN \o <<"2">>, ID_TOKEN \o <<"9">>, UNKNOWN }

DocCounts == {1, 2}
LastSeenValues == {1, 2}

\* the buckets a list can hold. Buckets that differ only in a field the
\* code never reads for their key are one input: doc_count is read for the
\* project buckets that are undefined or unmapped, last_seen for the
\* undefined or unmapped buckets of the projects and contribution lists
Buckets(list) ==
    LET keys == IF list = "users" THEN UserKeys
                ELSE IF list = "projects" THEN ProjectKeys
                ELSE IF list = "resources" THEN ResourceKeys
                ELSE ResourceIdKeys
        resolved(k) ==
            IF list = "users" THEN TRUE
            ELSE IF list = "projects"
            THEN k # UNKNOWN /\ Lower(k) \in DOMAIN PROJECT_DATA
            ELSE /\ k # UNKNOWN
                 /\ IF Contains(k, ID_TOKEN)
                    THEN SplitLast(k, "_") \in DOMAIN INSTITUTION_DB
                    ELSE Lower(k) \in DOMAIN RESOURCE_DATA
    IN { b \in [key : keys, doc_count : DocCounts, last_seen : LastSeenValues] :
           /\ resolved(b.key) => b.last_seen = 1
           /\ (resolved(b.key) \/ list # "projects") => b.doc_count = 1 }

bucket_names == <<"users", "projects", "institutions_contrib", "institutions_benefit">>
set_names == <<"non_r1_institutions_contrib", "non_r1_institutions_benefit">>
sum_names == <<"total_jobs", "core_hours", "files_transferred", "osdf_files_transferred">>
count_names == <<"unmapped_projects", "unmapped_institutions">>

Range(f) == { f[x] : x \in DOMAIN f }
SetNames == Range(bucket_names) \cup Range(set_names)


\* "aggregations" of a daily-totals result: the sums it holds and their
\* values (a result may lack any of them)
ScalarResults ==
    { [present |-> {}, value |-> [n \in Range(sum_names) |-> 0]],
      [present |-> {"total_jobs", "files_transferred"},
       value |-> [n \in Range(sum_names) |->
                     IF n = "total_jobs" THEN 2
                     ELSE IF n = "files_transferred" THEN 3 ELSE 0]],
      [present |-> {"files_transferred"},
       value |-> [n \in Range(sum_names) |->
                     IF n = "files_transferred" THEN 3 ELSE 0]] }

\* a result without "aggregations"
NoAggregations == [present |-> {}, value |-> [n \in Range(sum_names) |-> 0]]

\* what client.search does: it returns the aggregations or raises
SearchResponses(results) ==
    { [ok |-> TRUE, aggregations |-> a] : a \in results }
    \cup { [ok |-> FALSE, aggregations |-> NoAggregations] }

\* do_query that swallows the exception and returns an empty result
do_query_swallow(response) ==
    [raised |-> FALSE, result |-> response.aggregations, ok |-> response.ok,
     calls |-> 1]

\* do_query: the exception of client.search is printed and re-raised
do_query(response) ==
    [raised |-> ~response.ok, result |-> response.aggregations, ok |-> response.ok,
     calls |-> 1]

\* is_r1_institution that answers False for an id missing from the table
is_r1_institution_missing_false(instituion_id) ==
    IF instituion_id = EmptyStr THEN None
    ELSE IF instituion_id \notin DOMAIN INSTITUTION_DB THEN False
    ELSE IF "carnegie_metadata" \notin DOMAIN INSTITUTION_DB[instituion_id] THEN None
    ELSE IF {"classification2021", "classification2025"}
            \cap DOMAIN INSTITUTION_DB[instituion_id].carnegie_metadata = {}
         THEN None
    ELSE IF "classification2025"
            \in DOMAIN INSTITUTION_DB[instituion_id].carnegie_metadata
            /\ INSTITUTION_DB[instituion_id].carnegie_metadata.classification2025
               = R1_RESEARCH_ACTIVITY
         THEN True
    ELSE False

\* the body of is_r1_institution (what runs on a cache miss)
is_r1_institution(instituion_id) ==
    IF instituion_id = EmptyStr THEN None
    ELSE IF instituion_id \notin DOMAIN INSTITUTION_DB THEN None
    ELSE IF "carnegie_metadata" \notin DOMAIN INSTITUTION_DB[instituion_id] THEN None
    ELSE IF {"classification2021", "classification2025"}
            \cap DOMAIN INSTITUTION_DB[instituion_id].carnegie_metadata = {}
         THEN None
    ELSE IF "classification2025"
            \in DOMAIN INSTITUTION_DB[instituion_id].carnegie_metadata
            /\ INSTITUTION_DB[instituion_id].carnegie_metadata.classification2025
               = R1_RESEARCH_ACTIVITY
         THEN True
    ELSE False

\* @lru_cache: the result stored for the argument tuple, else the body's
lru_call(cache, args) ==
    IF args \in DOMAIN cache THEN cache[args] ELSE is_r1_institution(args[1])

\* the caller's test read as "not r1"
r1_is_not_true(r1) == r1 # True

\* "r1 is False" (lines 398 and 424)
r1_is_false(r1) == r1 = False

\* the sentinel test of line 430
is_sentinel(value) == Lower(value) \in {EmptyStr, unknown}


(***************************************************************************)
(* The reference directories of functions.py: get_institution_database,    *)
(* get_topology_project_data and get_topology_resource_data. A table is    *)
(* the set of its keys.                                                    *)
(***************************************************************************)
\* seconds for which a cache file is used without a fetch
CACHE_SECONDS == 1200
max_tries == 5

\* the three functions
RefFunctions == {"institution", "project", "resource"}

\* ages in seconds of a cache file: time.time() - st_mtime
CacheAges == {0, 1199, 1200, 1201}

\* tables found in a cache file: an empty dict or the table of an older call
CachedTables == { {}, {"old"} }

\* tables served by the source: the institution API may list no
\* institution; a topology table always gets the entry "Unknown"
FetchedTables(fn) ==
    IF fn = "institution" THEN { {}, {"new"} } ELSE { {"new"} }

\* what urlopen does: it returns the data, raises HTTPError for an HTTP
\* error status, or raises another URLError when the server is not reached
UrlopenResults(fn) ==
    { [raised |-> "none", data |-> t] : t \in FetchedTables(fn) }
    \cup { [raised |-> e, data |-> {}] : e \in {"HTTPError", "URLError"} }

\* the states of a cache file: missing, or holding a pickle that loads or
\* does not load
CacheFiles ==
    { [exists |-> FALSE, loads |-> FALSE, table |-> {}, age |-> 0] }
    \cup { [exists |-> TRUE, loads |-> FALSE, table |-> {}, age |-> a] :
             a \in CacheAges }
    \cup { [exists |-> TRUE, loads |-> TRUE, table |-> t, age |-> a] :
             t \in CachedTables, a \in CacheAges }

VARIABLES
    ref_fn,        \* the function called
    ref_pc,        \* position in it
    cache_file,    \* the cache file on disk
    ref_data,      \* institution_db / projects_data / resources_data
    xmltree,       \* the data fetched by the topology functions
    tries,         \* tries
    slept,         \* the time.sleep calls made, in order
    fetched,       \* the results of the urlopen calls made, in order
    dumped,        \* the pickle.dump calls made
    ref_result,    \* the table returned
    ref_error      \* the exception that left the function, if any

ref_vars == <<ref_fn, ref_pc, cache_file, ref_data, xmltree, tries, slept,
              fetched, dumped, ref_result, ref_error>>

\* a call of fn that finds cache file f
RefStart(fn, f) ==
    /\ ref_fn = fn
    /\ ref_pc = "call"
    /\ cache_file = f
    /\ ref_data = {}
    /\ xmltree = {}
    /\ tries = 0
    /\ slept = <<>>
    /\ fetched = <<>>
    /\ dumped = 0
    /\ ref_result = {}
    /\ ref_error = "none"

\* except HTTPError (lines 109, 139, 200)
caught(raised) == raised = "HTTPError"

\* pickle.dump(data, cache_file.open("wb"))
Dump(data) == [exists |-> TRUE, loads |-> TRUE, table |-> data, age |-> 0]

\* the test of line 87 without len(institution_db) > 0
cache_fresh_any_table(loaded, age) == age < CACHE_SECONDS

\* lines 87, 130, 191: len(table) > 0 and st_mtime > time.time() - 1200
cache_fresh(loaded, age) == loaded # {} /\ age < CACHE_SECONDS

\* lines 79-90, 122-133, 183-194: the cache is loaded and used if it is not
\* empty and younger than CACHE_SECONDS
RefLoad ==
    /\ ref_pc = "call"
    /\ LET loaded == IF cache_file.exists /\ cache_file.loads
                     THEN cache_file.table ELSE {}
       IN /\ ref_data' = loaded
          /\ IF cache_fresh(loaded, cache_file.age)
             THEN /\ ref_pc' = "returned"
                  /\ ref_result' = loaded
             ELSE /\ ref_pc' = "loop"
                  /\ UNCHANGED ref_result
    /\ tries' = 0
    /\ UNCHANGED <<ref_fn, cache_file, xmltree, slept, fetched, dumped, ref_error>>

\* lines 92-115, 135-145, 196-206: one iteration of the while loop
RefTry ==
    /\ ref_pc = "loop"
    /\ tries < max_tries
    /\ \E r \in UrlopenResults(ref_fn) :
         /\ fetched' = Append(fetched, r.raised)
         /\ IF r.raised = "none"
            THEN \* the else clause: break
                 /\ IF ref_fn = "institution"
                    THEN /\ ref_data' = ref_data \cup r.data
                         /\ ref_pc' = "dump"
                         /\ UNCHANGED xmltree
                    ELSE /\ xmltree' = r.data
                         /\ ref_pc' = "build"
                         /\ UNCHANGED ref_data
                 /\ UNCHANGED <<tries, slept, ref_error>>
            ELSE IF caught(r.raised)
            THEN /\ slept' = Append(slept, 2^tries)
                 /\ tries' = tries + 1
                 /\ IF tries + 1 = max_tries /\ ref_data = {}
                    THEN /\ ref_pc' = "raised"
                         /\ ref_error' = r.raised
                    ELSE UNCHANGED <<ref_pc, ref_error>>
                 /\ UNCHANGED <<ref_data, xmltree>>
            ELSE /\ ref_pc' = "raised"
                 /\ ref_error' = r.raised
                 /\ UNCHANGED <<ref_data, xmltree, tries, slept>>
    /\ UNCHANGED <<ref_fn, cache_file, dumped, ref_result>>

\* the while condition fails. get_institution_database goes on to line 117;
\* the topology functions return the cached data (lines 146-147, 207-208)
RefExhausted ==
    /\ ref_pc = "loop"
    /\ ~(tries < max_tries)
    /\ IF ref_fn = "institution"
       THEN /\ ref_pc' = "dump"
            /\ UNCHANGED ref_result
       ELSE /\ ref_pc' = "returned"
            /\ ref_result' = ref_data
    /\ UNCHANGED <<ref_fn, cache_file, ref_data, xmltree, tries, slept,
                   fetched, dumped, ref_error>>

\* lines 149-176, 210-243: the table built from the fetched data, with the
\* call of get_institution_database of line 159 / 218, which may raise
RefBuild ==
    /\ ref_pc = "build"
    /\ \E e \in {"none", "HTTPError", "URLError"} :
         IF e = "none"
         THEN /\ ref_data' = {"Unknown"} \cup xmltree
              /\ ref_pc' = "dump"
              /\ UNCHANGED ref_error
         ELSE /\ ref_pc' = "raised"
              /\ ref_error' = e
              /\ UNCHANGED ref_data
    /\ UNCHANGED <<ref_fn, cache_file, xmltree, tries, slept, fetched,
                   dumped, ref_result>>

\* lines 117-118, 178-179, 245-246
RefDump ==
    /\ ref_pc = "dump"
    /\ cache_file' = Dump(ref_data)
    /\ dumped' = dumped + 1
    /\ ref_result' = ref_data
    /\ ref_pc' = "returned"
    /\ UNCHANGED <<ref_fn, ref_data, xmltree, tries, slept, fetched, ref_error>>

\* the tables of lines 35-37 are loaded before main runs
RefLoaded == RefStart("institution", [exists |-> FALSE, loads |-> FALSE,
                                      table |-> {}, age |-> 0])


(***************************************************************************)
(* main and get_monthly_docs                                               *)
(***************************************************************************)
\* the key of the TOTAL document in docs; window documents are keyed 1, 2, ...
TOTAL == 0

VARIABLES
    pc,                             \* position in main / get_monthly_docs
    win,                            \* the window the loop of line 348 is at
    docs,                           \* docs: key -> document (field -> value)
    total_datasets,                 \* total_datasets: name -> set
    raw_datasets,                   \* raw_datasets of the window: name -> set
    unmapped_resources,             \* key -> last_seen
    undefined_resources_last_seen,
    unmapped_projects,              \* key -> last_seen
    undefined_projects_last_seen,
    r1_cache,                       \* lru_cache of is_r1_institution
    cur_keys,                       \* keys already returned in the bucket list read
    ndata,                          \* data returned by the event store so far
    error,                          \* the exception that ended the run, if any
    emitted,                        \* files written and mail sent by main
    \* history of the run, read by the properties only
    sightings,                      \* <<list, key>> -> last_seen values seen unmapped
    classified,                     \* classifications made for resolved buckets
    window_sets,                    \* union of the raw_datasets of the windows ended
    search_errors,                  \* windows whose query was answered by an error
    search_calls,                   \* client.search calls made by the last do_query
    buckets,                        \* buckets already read of the bucket list read
    rerun                           \* a second run over the same windows, see SpecOrd

agg_vars == <<pc, win, docs, total_datasets, raw_datasets, unmapped_resources,
              undefined_resources_last_seen, unmapped_projects,
              undefined_projects_last_seen, r1_cache, cur_keys, ndata, error,
              emitted, sightings, classified, window_sets, search_errors,
              search_calls, buckets, rerun>>

vars == <<ts_vars, agg_vars, ref_vars>>

EmptyMap == [k \in {} |-> 0]

\* raw_datasets[name].add(v)
AddTo(ds, name, v) == [ds EXCEPT ![name] = @ \cup {v}]

\* the total add left out for the benefiting institutions
AddTotalNoBenefit(ds, name, v) ==
    IF name = "institutions_benefit" THEN ds ELSE [ds EXCEPT ![name] = @ \cup {v}]

\* total_datasets[name].add(v)
AddTotal(ds, name, v) == [ds EXCEPT ![name] = @ \cup {v}]

\* lines 339-346
AggInit ==
    /\ pc = "totals"
    /\ win = 1
    /\ docs = (TOTAL :> [n \in Range(sum_names) \cup Range(count_names) \cup {"date"}
                            |-> IF n = "date" THEN TOTAL ELSE 0])
    /\ total_datasets = [n \in SetNames |-> {}]
    /\ raw_datasets = [n \in SetNames |-> {}]
    /\ unmapped_resources = EmptyMap
    /\ undefined_resources_last_seen = 0
    /\ unmapped_projects = EmptyMap
    /\ undefined_projects_last_seen = 0
    /\ r1_cache = EmptyMap
    /\ cur_keys = {}
    /\ ndata = 0
    /\ error = "none"
    /\ emitted = {}
    /\ sightings = EmptyMap
    /\ classified = {}
    /\ window_sets = [n \in SetNames |-> {}]
    /\ search_errors = {}
    /\ search_calls = 0
    /\ buckets = {}

\* an uncaught exception leaves get_monthly_docs and main
Raise(exc) ==
    /\ pc' = "raised"
    /\ error' = exc

\* the results the event store returns for a window: the responses to its
\* two queries and the buckets of its four lists, in the order returned
result_names == {"totals", "raw", "users", "projects", "resources", "resource_ids"}

\* rerun.mode is "off" for a single run; "first" while a run's results are
\* logged per window; "second" while a second run is fed the logged results
\* with the windows in the order rerun.order. rerun.first is what the first
\* run returned
RerunInit(mode) ==
    [mode |-> mode,
     log |-> [w \in 1..NumWindows |-> [n \in result_names |-> <<>>]],
     order |-> [i \in 1..NumWindows |-> i],
     first |-> [raised |-> FALSE, doc |-> EmptyMap, sets |-> EmptyMap]]

\* the results logged for the window at position win of timestamps.items()
WindowResults == rerun.log[rerun.order[win]]

\* rerun after the event store returned x as the next result of name
Logged(name, x) ==
    IF rerun.mode = "first"
    THEN [rerun EXCEPT !.log[win][name] = Append(@, x)]
    ELSE rerun

\* in a second run the event store returns x as result number n + 1 of name
\* only if it did so in the first run
Replays(name, n, x) ==
    rerun.mode = "second" =>
        /\ n < Len(WindowResults[name])
        /\ WindowResults[name][n + 1] = x

\* in a second run a bucket list ends where it ended in the first run
ReplayedAll(name, n) ==
    rerun.mode = "second" => n = Len(WindowResults[name])

\* line 357 with = in place of +=
AddValue_assign(total, value) == value

\* line 357: docs["TOTAL"][sum_name] += value
AddValue(total, value) == total + value

\* lines 349-362: the window document, the daily-totals query, the sums
QueryTotals ==
    /\ pc = "totals"
    /\ \E response \in SearchResponses(ScalarResults) :
         LET q == do_query(response)
             holds_sums == response.ok /\ response.aggregations.present # {}
             started == Put(docs, win, ("date" :> win))
             value(n) == IF n \in q.result.present THEN q.result.value[n] ELSE 0
             summed == [n \in Range(sum_names) \cup Range(count_names) \cup {"date"} |->
                          IF n \in Range(sum_names) THEN value(n)
                          ELSE IF n = "date" THEN win ELSE 0]
             totals == [n \in DOMAIN docs[TOTAL] |->
                          IF n \in Range(sum_names)
                          THEN AddValue(docs[TOTAL][n], value(n))
                          ELSE docs[TOTAL][n]]
         IN /\ holds_sums => ndata < MaxData
            /\ Replays("totals", 0, response)
            /\ rerun' = Logged("totals", response)
            /\ search_calls' = q.calls
            /\ ndata' = IF holds_sums THEN ndata + 1 ELSE ndata
            /\ search_errors' = IF response.ok THEN search_errors
                                ELSE search_errors \cup {win}
            /\ IF q.raised
               THEN /\ Raise("TransportError")
                    /\ docs' = started
               ELSE /\ docs' = Put(Put(docs, win, summed), TOTAL, totals)
                    /\ pc' = "raw"
                    /\ UNCHANGED error
    /\ UNCHANGED <<win, total_datasets, raw_datasets, unmapped_resources,
                   undefined_resources_last_seen, unmapped_projects,
                   undefined_projects_last_seen, r1_cache, cur_keys, buckets,
                   emitted, sightings, classified, window_sets>>
    /\ UNCHANGED <<ts_vars, ref_vars>>

\* lines 364-366: fresh window sets and the raw-data query; its bucket lists
\* are read one bucket at a time by the actions below
QueryRaw ==
    /\ pc = "raw"
    /\ \E response \in SearchResponses({NoAggregations}) :
         LET q == do_query(response)
         IN /\ Replays("raw", 0, response)
            /\ rerun' = Logged("raw", response)
            /\ search_calls' = q.calls
            /\ search_errors' = IF response.ok THEN search_errors
                                ELSE search_errors \cup {win}
            /\ raw_datasets' = [n \in SetNames |-> {}]
            /\ IF q.raised
               THEN Raise("TransportError")
               ELSE /\ pc' = "users"
                    /\ UNCHANGED error
    /\ cur_keys' = {}
    /\ buckets' = {}
    /\ UNCHANGED <<win, docs, total_datasets, unmapped_resources,
                   undefined_resources_last_seen, unmapped_projects,
                   undefined_projects_last_seen, r1_cache, ndata,
                   emitted, sightings, classified, window_sets>>
    /\ UNCHANGED <<ts_vars, ref_vars>>

\* the next bucket of the list being read: a key the list has not returned
NextBucket(list, b) ==
    /\ pc = list
    /\ ndata < MaxData
    /\ b \in Buckets(list)
    /\ b.key \notin cur_keys
    /\ Replays(list, Cardinality(cur_keys), b)
    /\ rerun' = Logged(list, b)
    /\ cur_keys' = cur_keys \cup {b.key}
    /\ buckets' = buckets \cup {b}
    /\ ndata' = ndata + 1

\* the value of a "users" key with the lower-casing left out
user_value_keep_case(key) ==
    IF Contains(key, <<"@">>) THEN SplitFirst(key, "@") ELSE key

\* lines 401-403 and 428-429: the value of a "users" key
user_value(key) ==
    IF Contains(key, <<"@">>) THEN Lower(SplitFirst(key, "@")) ELSE Lower(key)

\* lines 401-403 and 428-433: a bucket of "users"
UsersBucket ==
    \E b \in Buckets("users") :
        /\ NextBucket("users", b)
        /\ LET value == user_value(b.key)
           IN IF is_sentinel(value)
              THEN UNCHANGED <<raw_datasets, total_datasets>>
              ELSE /\ raw_datasets' =
                         AddTo(raw_datasets, "users", value)
                   /\ total_datasets' = AddTotal(total_datasets, "users", value)
        /\ UNCHANGED <<pc, win, docs, unmapped_resources,
                       undefined_resources_last_seen, unmapped_projects,
                       undefined_projects_last_seen, r1_cache, error, emitted,
                       sightings, classified, window_sets, search_errors, search_calls>>
        /\ UNCHANGED <<ts_vars, ref_vars>>


\* docs[key][field] += n made for the window documents only
DocAddWindowOnly(d, key, field, n) ==
    IF key = TOTAL THEN d ELSE [d EXCEPT ![key][field] = @ + n]

\* docs[key][field] += n
DocAdd(d, key, field, n) == [d EXCEPT ![key][field] = @ + n]

\* the history of unmapped sightings: the newest last_seen sighted per key
Sighted(h, list, b) ==
    Put(h, <<list, b.key>>, Max(Get(h, <<list, b.key>>, 0), b.last_seen))

\* lines 404-427 and 430-433: a bucket of "projects"
ProjectsBucket ==
    \E b \in Buckets("projects") :
        /\ NextBucket("projects", b)
        /\ LET project == Lower(b.key)
               mapped == project \in DOMAIN PROJECT_DATA
               project_institution == PROJECT_DATA[project].institution
               has_id == mapped /\ "institution_id" \in DOMAIN PROJECT_DATA[project]
               args == <<PROJECT_DATA[project].institution_id, "project", project>>
               \* lines 408-412
               raw1 == IF mapped
                       THEN AddTo(raw_datasets, "institutions_benefit", project_institution)
                       ELSE raw_datasets
               tot1 == IF mapped
                       THEN AddTotal(total_datasets, "institutions_benefit", project_institution)
                       ELSE total_datasets
               \* lines 418-420
               up1 == IF project \notin DOMAIN unmapped_projects
                      THEN Put(unmapped_projects, b.key, 0)
                      ELSE unmapped_projects
               \* lines 427-433
               raw2(r) == IF is_sentinel(project) THEN r
                          ELSE AddTo(r, "projects", project)
               tot2(t) == IF is_sentinel(project) THEN t
                          ELSE AddTotal(t, "projects", project)
           IN IF b.key = UNKNOWN
              THEN \* lines 413-416
                   /\ undefined_projects_last_seen' =
                          Max(undefined_projects_last_seen, b.last_seen)
                   /\ docs' = DocAdd(DocAdd(docs, win, "unmapped_projects", b.doc_count),
                                     TOTAL, "unmapped_projects", b.doc_count)
                   /\ raw_datasets' = raw2(raw1)
                   /\ total_datasets' = tot2(tot1)
                   /\ classified' = IF mapped
                                    THEN classified \cup
                                         {[side |-> "benefit",
                                           value |-> project_institution, r1 |-> None]}
                                    ELSE classified
                   /\ UNCHANGED <<pc, error, unmapped_projects, r1_cache, sightings>>
              ELSE IF ~mapped
              THEN \* lines 417-423
                   IF b.key \notin DOMAIN up1
                   THEN \* unmapped_projects[bucket["key"]] of line 421 raises
                        /\ Raise("KeyError")
                        /\ UNCHANGED <<docs, raw_datasets, total_datasets,
                                       unmapped_projects, undefined_projects_last_seen,
                                       r1_cache, sightings, classified>>
                   ELSE /\ unmapped_projects' =
                               Put(up1, b.key, Max(up1[b.key], b.last_seen))
                        /\ docs' = DocAdd(DocAdd(docs, win, "unmapped_institutions", b.doc_count),
                                          TOTAL, "unmapped_institutions", b.doc_count)
                        /\ sightings' = Sighted(sightings, "projects", b)
                        /\ raw_datasets' = raw2(raw1)
                        /\ total_datasets' = tot2(tot1)
                        /\ UNCHANGED <<pc, error, undefined_projects_last_seen,
                                       r1_cache, classified>>
              ELSE \* lines 424-426
                   LET r1 == IF has_id THEN lru_call(r1_cache, args) ELSE None
                       non_r1 == has_id /\ r1_is_false(r1)
                   IN /\ r1_cache' = IF has_id THEN Put(r1_cache, args, r1) ELSE r1_cache
                      /\ raw_datasets' =
                             raw2(IF non_r1
                                  THEN AddTo(raw1, "non_r1_institutions_benefit", project_institution)
                                  ELSE raw1)
                      /\ total_datasets' =
                             tot2(IF non_r1
                                  THEN AddTotal(tot1, "non_r1_institutions_benefit",
                                             project_institution)
                                  ELSE tot1)
                      /\ classified' = classified \cup
                                       {[side |-> "benefit",
                                         value |-> project_institution, r1 |-> r1]}
                      /\ UNCHANGED <<pc, error, docs, unmapped_projects,
                                     undefined_projects_last_seen, sightings>>
        /\ UNCHANGED <<win, unmapped_resources, undefined_resources_last_seen,
                       emitted, window_sets, search_errors, search_calls>>
        /\ UNCHANGED <<ts_vars, ref_vars>>

\* the value of a contribution key, with a key that holds the id token and
\* is not found by id looked up in the resource table as well
contrib_value_fallback(key) ==
    IF Contains(key, ID_TOKEN) /\ SplitLast(key, "_") \in DOMAIN INSTITUTION_DB
    THEN INSTITUTION_DB[SplitLast(key, "_")].name
    ELSE IF Lower(key) \in DOMAIN RESOURCE_DATA
    THEN RESOURCE_DATA[Lower(key)].institution
    ELSE UNKNOWN

\* lines 380-384: the value of a contribution key
contrib_value(key) ==
    IF Contains(key, ID_TOKEN)
    THEN (IF SplitLast(key, "_") \in DOMAIN INSTITUTION_DB
          THEN INSTITUTION_DB[SplitLast(key, "_")].name ELSE UNKNOWN)
    ELSE (IF Lower(key) \in DOMAIN RESOURCE_DATA
          THEN RESOURCE_DATA[Lower(key)].institution ELSE UNKNOWN)

\* lines 379-400 and 430-433: a bucket of "resources" or of "resource_ids"
ContribBucket(list) ==
    \E b \in Buckets(list) :
        /\ NextBucket(list, b)
        /\ LET by_id == Contains(b.key, ID_TOKEN)
               name_key == Lower(b.key)
               value == contrib_value(b.key)
               \* lines 393-396
               resource_id == IF ~by_id
                              THEN (IF name_key \in DOMAIN RESOURCE_DATA
                                    THEN RESOURCE_DATA[name_key].institution_id
                                    ELSE EmptyStr)
                              ELSE (IF b.key \in DOMAIN INSTITUTION_DB
                                    THEN INSTITUTION_DB[b.key].id ELSE EmptyStr)
               args == <<resource_id, "resource", value>>
               r1 == lru_call(r1_cache, args)
               raw2(r) == IF is_sentinel(value) THEN r
                          ELSE AddTo(r, "institutions_contrib", value)
               tot2(t) == IF is_sentinel(value) THEN t
                          ELSE AddTotal(t, "institutions_contrib", value)
           IN IF value = UNKNOWN /\ b.key # UNKNOWN
              THEN \* lines 385-389
                   /\ unmapped_resources' =
                          Put(unmapped_resources, b.key,
                              Max(Get(unmapped_resources, b.key, 0), b.last_seen))
                   /\ sightings' = Sighted(sightings, "resources", b)
                   /\ raw_datasets' = raw2(raw_datasets)
                   /\ total_datasets' = tot2(total_datasets)
                   /\ UNCHANGED <<undefined_resources_last_seen, r1_cache, classified>>
              ELSE IF b.key = UNKNOWN
              THEN \* lines 390-391
                   /\ undefined_resources_last_seen' =
                          Max(undefined_resources_last_seen, b.last_seen)
                   /\ raw_datasets' = raw2(raw_datasets)
                   /\ total_datasets' = tot2(total_datasets)
                   /\ UNCHANGED <<unmapped_resources, sightings, r1_cache, classified>>
              ELSE \* lines 392-400
                   /\ r1_cache' = Put(r1_cache, args, r1)
                   /\ raw_datasets' =
                          raw2(IF r1_is_false(r1)
                               THEN AddTo(raw_datasets, "non_r1_institutions_contrib", value)
                               ELSE raw_datasets)
                   /\ total_datasets' =
                          tot2(IF r1_is_false(r1)
                               THEN AddTotal(total_datasets, "non_r1_institutions_contrib", value)
                               ELSE total_datasets)
                   /\ classified' = classified \cup
                                    {[side |-> "contrib",
                                      value |-> value, r1 |-> r1]}
                   /\ UNCHANGED <<unmapped_resources, undefined_resources_last_seen,
                                  sightings>>
        /\ UNCHANGED <<pc, win, docs, error, unmapped_projects,
                       undefined_projects_last_seen, emitted, window_sets,
                       search_errors, search_calls>>
        /\ UNCHANGED <<ts_vars, ref_vars>>

ResourcesBucket == ContribBucket("resources")

ResourceIdsBucket == ContribBucket("resource_ids")


\* docs[key][field] = v
DocSet(d, key, field, v) == Put(d, key, Put(d[key], field, v))

intersections ==
    [institutions_intersect |-> <<"institutions_contrib", "institutions_benefit">>,
     non_r1_institutions_intersect |->
        <<"non_r1_institutions_contrib", "non_r1_institutions_benefit">>]
unions ==
    [institutions_union |-> <<"institutions_contrib", "institutions_benefit">>,
     non_r1_institutions_union |->
        <<"non_r1_institutions_contrib", "non_r1_institutions_benefit">>]
fractions ==
    [file_transfers_per_job |-> <<"files_transferred", "total_jobs">>,
     pct_institutions_union_non_r1 |-> <<"non_r1_institutions_union", "institutions_union">>,
     pct_institutions_intersect |-> <<"institutions_intersect", "institutions_union">>]

\* a / b, without the max(b, 1)
Fraction_unguarded(doc, items) == <<doc[items[1]], doc[items[2]]>>

\* a / max(b, 1), kept as the pair of its numerator and denominator
Fraction(doc, items) == <<doc[items[1]], Max(doc[items[2]], 1)>>

\* doc with the fields of fs added
WithFields(doc, fs) ==
    [n \in (DOMAIN doc) \cup (DOMAIN fs) |-> IF n \in DOMAIN fs THEN fs[n] ELSE doc[n]]

\* lines 438-448: the set counts and the derived fields of a window document
window_doc(doc, raw) ==
    LET d1 == WithFields(doc, [n \in Range(set_names) |-> Cardinality(raw[n])])
        d2 == WithFields(d1, [n \in DOMAIN intersections |->
                 Cardinality(raw[intersections[n][1]] \cap raw[intersections[n][2]])])
        d3 == WithFields(d2, [n \in DOMAIN unions |->
                 Cardinality(raw[unions[n][1]] \cup raw[unions[n][2]])])
    IN WithFields(d3, [n \in DOMAIN fractions |-> Fraction(d3, fractions[n])])

\* lines 459-465: the intersection and union sets stored in total_datasets
total_sets(tds) ==
    LET t1 == [n \in (DOMAIN tds) \cup (DOMAIN intersections) |->
                 IF n \in DOMAIN intersections
                 THEN tds[intersections[n][1]] \cap tds[intersections[n][2]]
                 ELSE tds[n]]
    IN [n \in (DOMAIN t1) \cup (DOMAIN unions) |->
          IF n \in DOMAIN unions
          THEN t1[unions[n][1]] \cup t1[unions[n][2]]
          ELSE t1[n]]

\* the TOTAL document with its intersection and union counts added up from
\* the window documents
total_doc_summed(d, tds) ==
    LET windows == (DOMAIN d) \ {TOTAL}
        Sum(f) == LET RECURSIVE S(_)
                      S(ws) == IF ws = {} THEN 0
                               ELSE LET x == CHOOSE x \in ws : TRUE
                                    IN d[x][f] + S(ws \ {x})
                  IN S(windows)
        d1 == WithFields(d[TOTAL], [n \in Range(bucket_names) \cup Range(set_names) |->
                                       Cardinality(tds[n])])
        d2 == WithFields(d1, [n \in DOMAIN intersections |-> Sum(n)])
        d3 == WithFields(d2, [n \in DOMAIN unions |-> Sum(n)])
    IN WithFields(d3, [n \in DOMAIN fractions |-> Fraction(d3, fractions[n])])

\* lines 450-469: the TOTAL document
total_doc(d, tds) ==
    LET d1 == WithFields(d[TOTAL], [n \in Range(bucket_names) \cup Range(set_names) |->
                                       Cardinality(tds[n])])
        d2 == WithFields(d1, [n \in DOMAIN intersections |->
                 Cardinality(tds[intersections[n][1]] \cap tds[intersections[n][2]])])
        d3 == WithFields(d2, [n \in DOMAIN unions |->
                 Cardinality(tds[unions[n][1]] \cup tds[unions[n][2]])])
    IN WithFields(d3, [n \in DOMAIN fractions |-> Fraction(d3, fractions[n])])

\* line 434 after the "users" list
EndUsers ==
    /\ pc = "users"
    /\ ReplayedAll("users", Cardinality(cur_keys))
    /\ docs' = DocSet(docs, win, "users", Cardinality(raw_datasets["users"]))
    /\ pc' = "projects"
    /\ cur_keys' = {}
    /\ buckets' = {}
    /\ UNCHANGED <<win, total_datasets, raw_datasets, unmapped_resources,
                   undefined_resources_last_seen, unmapped_projects,
                   undefined_projects_last_seen, r1_cache, ndata, rerun, error,
                   emitted, sightings, classified, window_sets, search_errors, search_calls>>
    /\ UNCHANGED <<ts_vars, ref_vars>>

\* lines 434-436 after the "projects" list
EndProjects ==
    /\ pc = "projects"
    /\ ReplayedAll("projects", Cardinality(cur_keys))
    /\ docs' = DocSet(DocSet(docs, win, "projects",
                             Cardinality(raw_datasets["projects"])),
                      win, "institutions_benefit",
                      Cardinality(raw_datasets["institutions_benefit"]))
    /\ pc' = "resources"
    /\ cur_keys' = {}
    /\ buckets' = {}
    /\ UNCHANGED <<win, total_datasets, raw_datasets, unmapped_resources,
                   undefined_resources_last_seen, unmapped_projects,
                   undefined_projects_last_seen, r1_cache, ndata, rerun, error,
                   emitted, sightings, classified, window_sets, search_errors, search_calls>>
    /\ UNCHANGED <<ts_vars, ref_vars>>

\* line 373: the "resource_ids" buckets follow the "resources" buckets
EndResources ==
    /\ pc = "resources"
    /\ ReplayedAll("resources", Cardinality(cur_keys))
    /\ pc' = "resource_ids"
    /\ cur_keys' = {}
    /\ buckets' = {}
    /\ UNCHANGED <<win, docs, total_datasets, raw_datasets, unmapped_resources,
                   undefined_resources_last_seen, unmapped_projects,
                   undefined_projects_last_seen, r1_cache, ndata, rerun, error,
                   emitted, sightings, classified, window_sets, search_errors, search_calls>>
    /\ UNCHANGED <<ts_vars, ref_vars>>

\* lines 434 and 438-448 after the contribution buckets; then the next
\* window, or the end of the loop of line 348
EndWindow ==
    /\ pc = "resource_ids"
    /\ ReplayedAll("resource_ids", Cardinality(cur_keys))
    /\ docs' = Put(docs, win,
                   window_doc(Put(docs[win], "institutions_contrib",
                                  Cardinality(raw_datasets["institutions_contrib"])),
                              raw_datasets))
    /\ IF win < NumWindows
       THEN /\ win' = win + 1
            /\ pc' = "totals"
       ELSE /\ pc' = "finalize"
            /\ UNCHANGED win
    /\ cur_keys' = {}
    /\ buckets' = {}
    /\ window_sets' = [n \in SetNames |-> window_sets[n] \cup raw_datasets[n]]
    /\ UNCHANGED <<total_datasets, raw_datasets, unmapped_resources,
                   undefined_resources_last_seen, unmapped_projects,
                   undefined_projects_last_seen, r1_cache, ndata, rerun, error,
                   emitted, sightings, classified, search_errors, search_calls>>
    /\ UNCHANGED <<ts_vars, ref_vars>>

\* lines 450-474: the TOTAL document; get_monthly_docs returns to main
Finalize ==
    /\ pc = "finalize"
    /\ docs' = Put(docs, TOTAL, total_doc(docs, total_datasets))
    /\ total_datasets' = total_sets(total_datasets)
    /\ pc' = "write_xlsx_html"
    /\ UNCHANGED <<win, raw_datasets, unmapped_resources,
                   undefined_resources_last_seen, unmapped_projects,
                   undefined_projects_last_seen, r1_cache, cur_keys, buckets, ndata, rerun, error,
                   emitted, sightings, classified, window_sets, search_errors, search_calls>>
    /\ UNCHANGED <<ts_vars, ref_vars>>

\* one output step of main: at position at it emits out and goes on to next
Emit(at, out, next) ==
    /\ pc = at
    /\ emitted' = emitted \cup {out}
    /\ pc' = next
    /\ UNCHANGED <<win, docs, total_datasets, raw_datasets, unmapped_resources,
                   undefined_resources_last_seen, unmapped_projects,
                   undefined_projects_last_seen, r1_cache, cur_keys, buckets, ndata, rerun, error,
                   sightings, classified, window_sets, search_errors, search_calls>>
    /\ UNCHANGED <<ts_vars, ref_vars>>

\* line 614
WriteXlsxHtml == Emit("write_xlsx_html", "xlsx", "write_unmapped_resources")
\* line 615
WriteUnmappedResources ==
    Emit("write_unmapped_resources", "unmapped_resources.txt", "write_unmapped_projects")
\* line 616
WriteUnmappedProjects ==
    Emit("write_unmapped_projects", "unmapped_projects.txt", "send_email")
\* lines 618-628
SendEmail == Emit("send_email", "email", "write_html")
\* lines 630-631
WriteHtml == Emit("write_html", "last_1yr_summary.html", "done")

\* the aggregation run does not touch the partitioner's variables, and
\* the partitioner's run does not touch the aggregation's
Init ==
    /\ RefLoaded
    /\ AggInit
    /\ rerun = RerunInit("off")
    /\ NOW = [year |-> FirstYear, month |-> 1, day |-> 1]
    /\ ts_pc = "start"
    /\ dt_end = ValueError
    /\ dt_end_day = 0
    /\ dates = <<>>

Next ==
    \/ QueryTotals
    \/ QueryRaw
    \/ UsersBucket
    \/ EndUsers
    \/ ProjectsBucket
    \/ EndProjects
    \/ ResourcesBucket
    \/ EndResources
    \/ ResourceIdsBucket
    \/ EndWindow
    \/ Finalize
    \/ WriteXlsxHtml
    \/ WriteUnmappedResources
    \/ WriteUnmappedProjects
    \/ SendEmail
    \/ WriteHtml

Spec == Init /\ [][Next]_vars

InitTS ==
    /\ RefLoaded
    /\ TsInit
    /\ AggInit
    /\ rerun = RerunInit("off")

NextTS ==
    \/ (TsBegin /\ UNCHANGED <<agg_vars, ref_vars>>)
    \/ (TsIterate /\ UNCHANGED <<agg_vars, ref_vars>>)
    \/ (TsReturn /\ UNCHANGED <<agg_vars, ref_vars>>)

SpecTS == InitTS /\ [][NextTS]_vars

\* get_timestamps is straight-line code around one loop: a step that can be
\* taken is taken
SpecTSFair == InitTS /\ [][NextTS]_vars /\ WF_vars(NextTS)


(***************************************************************************)
(* get_monthly_docs run twice over the same windows: the second run gets   *)
(* the query results of the first with timestamps.items() in another order *)
(***************************************************************************)
\* the orders of the windows other than the order of the first run
Orders ==
    { o \in [1..NumWindows -> 1..NumWindows] :
        /\ \A i, j \in 1..NumWindows : o[i] = o[j] => i = j
        /\ \E i \in 1..NumWindows : o[i] # i }

\* what a run of get_monthly_docs has produced when it ends: the exception,
\* or the TOTAL document and total_datasets (line 474)
Outcome ==
    [raised |-> pc = "raised",
     doc |-> IF pc = "raised" THEN EmptyMap ELSE docs[TOTAL],
     sets |-> IF pc = "raised" THEN EmptyMap ELSE total_datasets]

\* the first run has ended: a new run starts from the state of lines
\* 339-346, with an empty lru_cache
SecondRun ==
    /\ rerun.mode = "first"
    /\ pc \in {"write_xlsx_html", "raised"}
    /\ \E o \in Orders :
         rerun' = [rerun EXCEPT !.mode = "second", !.order = o, !.first = Outcome]
    /\ pc' = "totals"
    /\ win' = 1
    /\ docs' = (TOTAL :> [n \in Range(sum_names) \cup Range(count_names) \cup {"date"}
                             |-> IF n = "date" THEN TOTAL ELSE 0])
    /\ total_datasets' = [n \in SetNames |-> {}]
    /\ raw_datasets' = [n \in SetNames |-> {}]
    /\ unmapped_resources' = EmptyMap
    /\ undefined_resources_last_seen' = 0
    /\ unmapped_projects' = EmptyMap
    /\ undefined_projects_last_seen' = 0
    /\ r1_cache' = EmptyMap
    /\ cur_keys' = {}
    /\ buckets' = {}
    /\ ndata' = 0
    /\ error' = "none"
    /\ sightings' = EmptyMap
    /\ classified' = {}
    /\ window_sets' = [n \in SetNames |-> {}]
    /\ search_errors' = {}
    /\ search_calls' = 0
    /\ UNCHANGED emitted
    /\ UNCHANGED <<ts_vars, ref_vars>>

InitOrd ==
    /\ RefLoaded
    /\ AggInit
    /\ rerun = RerunInit("first")
    /\ NOW = [year |-> FirstYear, month |-> 1, day |-> 1]
    /\ ts_pc = "start"
    /\ dt_end = ValueError
    /\ dt_end_day = 0
    /\ dates = <<>>

NextOrd ==
    \/ QueryTotals
    \/ QueryRaw
    \/ UsersBucket
    \/ EndUsers
    \/ ProjectsBucket
    \/ EndProjects
    \/ ResourcesBucket
    \/ EndResources
    \/ ResourceIdsBucket
    \/ EndWindow
    \/ Finalize
    \/ SecondRun

SpecOrd == InitOrd /\ [][NextOrd]_vars


(***************************************************************************)
(* One call of a reference-directory function, for every cache file it may *)
(* find                                                                    *)
(***************************************************************************)
InitRef ==
    /\ \E fn \in RefFunctions : \E f \in CacheFiles : RefStart(fn, f)
    /\ AggInit
    /\ rerun = RerunInit("off")
    /\ NOW = [year |-> FirstYear, month |-> 1, day |-> 1]
    /\ ts_pc = "start"
    /\ dt_end = ValueError
    /\ dt_end_day = 0
    /\ dates = <<>>

NextRef ==
    \/ (RefLoad /\ UNCHANGED <<ts_vars, agg_vars>>)
    \/ (RefTry /\ UNCHANGED <<ts_vars, agg_vars>>)
    \/ (RefExhausted /\ UNCHANGED <<ts_vars, agg_vars>>)
    \/ (RefBuild /\ UNCHANGED <<ts_vars, agg_vars>>)
    \/ (RefDump /\ UNCHANGED <<ts_vars, agg_vars>>)

SpecRef == InitRef /\ [][NextRef]_vars


(***************************************************************************)
(* is_r1_institution called on its own, with any arguments                 *)
(***************************************************************************)
\* ids a caller may pass: empty, full and short ids of the table, an id
\* that is not in the table
ClassifierIds ==
    {EmptyStr, FullId("9"), <<"1">>} \cup { i.id : i \in Institutions }

ClassifierArgs ==
    { <<id, "resource", Univ("A")>> : id \in ClassifierIds }
    \cup { <<id, "project", <<"p","y">>>> : id \in ClassifierIds }

\* one call of is_r1_institution through its lru_cache
CallIsR1 ==
    /\ \E args \in ClassifierArgs :
         /\ args \notin DOMAIN r1_cache => Cardinality(DOMAIN r1_cache) < MaxCalls
         /\ r1_cache' = Put(r1_cache, args, lru_call(r1_cache, args))
    /\ UNCHANGED <<pc, win, docs, total_datasets, raw_datasets, unmapped_resources,
                   undefined_resources_last_seen, unmapped_projects,
                   undefined_projects_last_seen, cur_keys, buckets, ndata, rerun, error,
                   emitted, sightings, classified, window_sets, search_errors, search_calls>>
    /\ UNCHANGED <<ts_vars, ref_vars>>

NextR1 == CallIsR1

SpecR1 == Init /\ [][NextR1]_vars


(***************************************************************************)
(* Properties                                                              *)
(***************************************************************************)
Returned ==
    pc \in {"write_xlsx_html", "write_unmapped_resources", "write_unmapped_projects",
            "send_email", "write_html", "done"}

\* C1: at every point of the run each of the six total sets equals the
\* union of the window sets of the windows processed so far (the windows
\* ended and the window being processed), and once get_monthly_docs has
\* returned the TOTAL count of each of them is the size of that union
C1_TotalIsUnionOfWindowSets ==
    /\ \A c \in SetNames :
          total_datasets[c] = window_sets[c] \cup raw_datasets[c]
    /\ Returned =>
          \A c \in SetNames : docs[TOTAL][c] = Cardinality(window_sets[c])

\* C1 witness: the same user in both windows is counted once in TOTAL
C1_Witness ==
    /\ pc = "done"
    /\ docs[1]["users"] = 1
    /\ docs[2]["users"] = 1
    /\ docs[TOTAL]["users"] = 1
    /\ total_datasets["users"] = {<<"a","l">>}

\* C2: the TOTAL intersection and union counts are the sizes of the
\* intersection and union of the run-wide sets; when window 1 holds Univ A
\* only as a contributor and window 2 holds it only as a beneficiary, the
\* TOTAL intersection and union are both 1 and every window's intersection
\* is 0
C2_TotalIntersectUnionFromSets ==
    Returned =>
      /\ \A n \in DOMAIN intersections :
            docs[TOTAL][n] = Cardinality(window_sets[intersections[n][1]]
                                         \cap window_sets[intersections[n][2]])
      /\ \A n \in DOMAIN unions :
            docs[TOTAL][n] = Cardinality(window_sets[unions[n][1]]
                                         \cup window_sets[unions[n][2]])
      /\ ( /\ window_sets["institutions_contrib"] = {Univ("A")}
           /\ window_sets["institutions_benefit"] = {Univ("A")}
           /\ docs[1]["institutions_contrib"] = 1
           /\ docs[1]["institutions_benefit"] = 0
           /\ docs[2]["institutions_contrib"] = 0
           /\ docs[2]["institutions_benefit"] = 1 )
         => ( /\ docs[TOTAL]["institutions_intersect"] = 1
              /\ docs[TOTAL]["institutions_union"] = 1
              /\ docs[1]["institutions_intersect"] = 0
              /\ docs[2]["institutions_intersect"] = 0 )

\* C2 witness: the two-window scenario has run to its end
C2_Witness ==
    /\ pc = "done"
    /\ window_sets["institutions_contrib"] = {Univ("A")}
    /\ window_sets["institutions_benefit"] = {Univ("A")}
    /\ docs[1]["institutions_contrib"] = 1
    /\ docs[1]["institutions_benefit"] = 0
    /\ docs[2]["institutions_contrib"] = 0
    /\ docs[2]["institutions_benefit"] = 1
    /\ docs[1]["institutions_intersect"] = 0
    /\ docs[2]["institutions_intersect"] = 0
    /\ docs[TOTAL]["institutions_intersect"] = 1

\* the unmapped-record map of a bucket list
UnmappedMap(list) ==
    IF list = "projects" THEN unmapped_projects ELSE unmapped_resources

\* C3: for every key sighted as unmapped, the stored last_seen is the
\* maximum last_seen sighted for it
C3_WatermarkIsMaximum ==
    \A k \in DOMAIN sightings :
        /\ k[2] \in DOMAIN UnmappedMap(k[1])
        /\ UnmappedMap(k[1])[k[2]] = sightings[k]

\* C4: no window set and no total set holds the empty string or 'unknown'
\* in any letter case
C4_NoSentinelInAnySet ==
    \A c \in SetNames :
        \A v \in raw_datasets[c] \cup total_datasets[c] :
            Lower(v) \notin {EmptyStr, unknown}


\* ordinals of the window starts and ends returned so far
StartOrd == [i \in 1..Len(dates) |-> Ord(dates[i].start)]
EndOrd == [i \in 1..Len(dates) |-> Ord(dates[i].end)]

\* C5: the windows are newest-first, contiguous and half-open: the newest
\* ends at 'now', every window has start < end, each start is the end of
\* the next (older) window, and every day of [oldest start, now) lies in
\* exactly one window
C5_WindowsContiguousDescending ==
    /\ \A i \in 1..Len(dates) : StartOrd[i] < EndOrd[i]
    /\ \A i \in 1..(Len(dates) - 1) :
          /\ dates[i].start = dates[i+1].end
          /\ StartOrd[i] > StartOrd[i+1]
    /\ Len(dates) >= 1 => dates[1].end = NOW
    /\ ts_pc = "done" =>
          /\ Len(dates) >= 1
          /\ LET so == StartOrd
                 eo == EndOrd
             IN \A t \in so[Len(dates)]..(Ord(NOW) - 1) :
                   Cardinality({ i \in 1..Len(dates) : so[i] <= t /\ t < eo[i] }) = 1

\* C5 witness: get_timestamps has returned twelve windows ending at 'now'
C5_Witness ==
    /\ ts_pc = "done"
    /\ Len(dates) = 12
    /\ dates[1].end = NOW
    /\ dates[12].end = dates[11].start

\* the anchor day clipped to a month, as the claim states it
ClippedDay(anchor, month) ==
    IF month \in {4, 6, 9, 11} THEN (IF anchor > 30 THEN 30 ELSE anchor)
    ELSE IF month = 2 THEN (IF anchor > 28 THEN 28 ELSE anchor)
    ELSE anchor

\* C6: every window start lies in the calendar month before its window's
\* end and its day is the anchor day of 'now' clipped to 30 in April, June,
\* September and November and to 28 in February of every year; for
\* now = 2024-03-31 the newest window starts on 2024-02-28
C6_StartDayIsClippedAnchor ==
    /\ \A i \in 1..Len(dates) :
          LET s == dates[i].start
              e == dates[i].end
          IN /\ IF e.month = 1
                THEN s.month = 12 /\ s.year = e.year - 1
                ELSE s.month = e.month - 1 /\ s.year = e.year
             /\ s.day = ClippedDay(NOW.day, s.month)
    /\ (NOW = [year |-> 2024, month |-> 3, day |-> 31] /\ Len(dates) >= 1)
          => dates[1].start = [year |-> 2024, month |-> 2, day |-> 28]

\* C6 witness: for now = 2024-03-31 the February start is clipped to 28 and
\* the January and November starts that follow are 31 and 30
C6_Witness ==
    /\ ts_pc = "done"
    /\ NOW = [year |-> 2024, month |-> 3, day |-> 31]
    /\ dates[1].start = [year |-> 2024, month |-> 2, day |-> 28]
    /\ dates[2].start = [year |-> 2024, month |-> 1, day |-> 31]
    /\ dates[4].start = [year |-> 2023, month |-> 11, day |-> 30]

\* C7: the oldest window returned starts at least DAYS days before 'now',
\* every newer window starts less than DAYS days before 'now', and every
\* window ends inside the requested span
C7_StopsAtFirstWindowPastDays ==
    LET n == Len(dates)
    IN /\ \A i \in 1..(n - 1) : Ord(NOW) - StartOrd[i] < DAYS
       /\ \A i \in 1..n : EndOrd[i] > Ord(NOW) - DAYS
       /\ ts_pc = "done" =>
             /\ n >= 1
             /\ Ord(NOW) - StartOrd[n] >= DAYS

\* C7 witness: the oldest window starts exactly DAYS days before 'now'
C7_Witness ==
    /\ ts_pc = "done"
    /\ Len(dates) >= 2
    /\ Ord(NOW) - Ord(dates[Len(dates)].start) = DAYS
    /\ Ord(NOW) - Ord(dates[Len(dates) - 1].start) < DAYS

\* C8: once a query of any window has been answered by an error, the run
\* has ended by the exception and nothing was written or sent
C8_FailedQueryEmitsNothing ==
    search_errors # {} =>
        /\ pc = "raised"
        /\ error = "TransportError"
        /\ emitted = {}

\* C8 witness: the raw-data query of the second window failed after the
\* first window had been aggregated
C8_Witness ==
    /\ search_errors = {2}
    /\ pc = "raised"
    /\ emitted = {}
    /\ 1 \in DOMAIN docs
    /\ "institutions_union" \in DOMAIN docs[1]
    /\ docs[1]["institutions_union"] = 1
    /\ "total_jobs" \in DOMAIN docs[2]
    /\ docs[2]["total_jobs"] = 2

\* the ids for which the claim requires an absent result: empty, not a key
\* of the institution table, or an institution without metadata that holds
\* a recognized classification field
HasClassificationField(id) ==
    \E i \in Institutions :
        /\ id \in {i.id, SplitLast(i.id, "/")}
        /\ "carnegie_metadata" \in DOMAIN i
        /\ \E f \in {"classification2021", "classification2025"} :
              f \in DOMAIN i.carnegie_metadata

\* C9: every call of is_r1_institution with an id that is empty, is not in
\* the institution table, has no classification metadata or has metadata
\* without a recognized classification field returned None
C9_AbsentIsNone ==
    \A args \in DOMAIN r1_cache :
        (args[1] = EmptyStr \/ ~HasClassificationField(args[1]))
            => r1_cache[args] = None

\* C9 witness: the four absent cases have each been called
C9_Witness ==
    /\ <<EmptyStr, "resource", Univ("A")>> \in DOMAIN r1_cache
    /\ <<FullId("9"), "resource", Univ("A")>> \in DOMAIN r1_cache
    /\ <<FullId("3"), "project", <<"p","y">>>> \in DOMAIN r1_cache
    /\ <<FullId("4"), "project", <<"p","y">>>> \in DOMAIN r1_cache
    /\ \A args \in DOMAIN r1_cache : r1_cache[args] = None

\* C10: every member of a non_r1 set, of the window or of the run, is the
\* institution of some bucket whose classification was exactly False
C10_NonR1OnlyIfClassifiedFalse ==
    /\ \A v \in raw_datasets["non_r1_institutions_contrib"]
                \cup total_datasets["non_r1_institutions_contrib"] :
          \E c \in classified : c.side = "contrib" /\ c.value = v /\ c.r1 = False
    /\ \A v \in raw_datasets["non_r1_institutions_benefit"]
                \cup total_datasets["non_r1_institutions_benefit"] :
          \E c \in classified : c.side = "benefit" /\ c.value = v /\ c.r1 = False

\* C10 witness: a bucket with an absent classification was counted as a
\* contributor and left out of the non_r1 set, next to a bucket classified
\* False that was put into it
C10_Witness ==
    /\ [side |-> "contrib", value |-> Univ("N"), r1 |-> None] \in classified
    /\ Univ("N") \in total_datasets["institutions_contrib"]
    /\ Univ("N") \notin total_datasets["non_r1_institutions_contrib"]
    /\ [side |-> "benefit", value |-> Univ("B"), r1 |-> False] \in classified
    /\ Univ("B") \in total_datasets["non_r1_institutions_benefit"]

\* the keys of the buckets read so far of the list being read
KeysRead == { b.key : b \in buckets }

\* C11: every member of a users set is lower-cased text without '@' that
\* resolves to itself; every "users" bucket read has its resolved value in
\* the window's and the run's users set unless that value is a sentinel;
\* and a list that holds only keys among 'Al', 'al' and 'AL@x' yields the
\* one user 'al'
C11_UserResolution ==
    /\ \A v \in raw_datasets["users"] \cup total_datasets["users"] :
          /\ v = Lower(v)
          /\ ~Contains(v, <<"@">>)
          /\ user_value(v) = v
    /\ pc = "users" =>
          /\ \A k \in KeysRead :
                LET v == Lower(SplitFirst(k, "@"))
                IN Lower(v) \in {EmptyStr, unknown}
                   \/ (v \in raw_datasets["users"] /\ v \in total_datasets["users"])
          /\ (KeysRead # {} /\ KeysRead \subseteq
                  {<<"A","l">>, <<"a","l">>, <<"A","L","@","x">>})
                => raw_datasets["users"] = {<<"a","l">>}

\* C11 witness: the keys 'Al' and 'AL@x' of one list have added the one
\* user 'al' to the window's set
C11_Witness ==
    /\ pc = "users"
    /\ KeysRead = {<<"A","l">>, <<"A","L","@","x">>}
    /\ raw_datasets["users"] = {<<"a","l">>}
    /\ Cardinality(total_datasets["users"]) = 1

\* the documents that are complete: the windows ended and, once
\* get_monthly_docs has returned, TOTAL
CompleteDocs ==
    { k \in DOMAIN docs :
        IF k = TOTAL THEN Returned
        ELSE k < win \/ pc = "finalize" \/ Returned }

\* C12: every complete document holds each ratio field, and its value
\* r = <<p, q>> is N / max(D, 1) of the document's own numerator N and
\* denominator D: q > 0 and p * max(D, 1) = N * q; with D = 0 it is N, and
\* with N = 0 and D = 0 it is 0
C12_RatioOfOwnFields ==
    \A k \in CompleteDocs :
        \A f \in DOMAIN fractions :
            /\ f \in DOMAIN docs[k]
            /\ LET N == docs[k][fractions[f][1]]
                   D == docs[k][fractions[f][2]]
                   r == docs[k][f]
               IN /\ r[2] > 0
                  /\ r[1] * (IF D >= 1 THEN D ELSE 1) = N * r[2]
                  /\ D = 0 => r[1] = N * r[2]
                  /\ (N = 0 /\ D = 0) => r[1] = 0

\* C12 witness: window 1 has 3 files transferred by 0 jobs (ratio 3),
\* window 2 has 3 by 2 jobs, TOTAL has 6 by 2, and no institution was seen
\* (ratio of 0 by 0)
C12_Witness ==
    /\ pc = "done"
    /\ docs[1]["total_jobs"] = 0
    /\ docs[1]["file_transfers_per_job"] = <<3, 1>>
    /\ docs[2]["file_transfers_per_job"] = <<3, 2>>
    /\ docs[TOTAL]["file_transfers_per_job"] = <<6, 2>>
    /\ docs[TOTAL]["institutions_union"] = 0
    /\ docs[TOTAL]["pct_institutions_intersect"] = <<0, 1>>

\* the undefined last-seen value of a bucket list
UndefinedLastSeen(list) ==
    IF list = "projects" THEN undefined_projects_last_seen
    ELSE undefined_resources_last_seen

\* C13: no key that is 'unknown' in some letter case is a key of an
\* unmapped-record map, and every bucket read with such a key has raised
\* the undefined last-seen value of its category to its last_seen
C13_UndefinedNeverUnmapped ==
    /\ \A k \in (DOMAIN unmapped_resources) \cup (DOMAIN unmapped_projects) :
          Lower(k) # unknown
    /\ pc \in {"projects", "resources", "resource_ids"} =>
          \A b \in buckets :
              Lower(b.key) = unknown => UndefinedLastSeen(pc) >= b.last_seen

\* the bucket a step reads, if it reads one
BucketRead == buckets' \ buckets

\* C14 as claimed: a step that reads a bucket with the key 'UNKNOWN'
\* increases no unmapped counter of the window document or of TOTAL
C14_UndefinedNeverCounted ==
    [][\A b \in BucketRead :
          b.key = UNKNOWN =>
             \A k \in {win, TOTAL} : \A c \in Range(count_names) :
                 docs'[k][c] <= docs[k][c]]_vars

\* C14 as amended: a step that reads a bucket with the key 'UNKNOWN'
\* leaves unmapped_institutions of the window document and of TOTAL as
\* they are; it adds the bucket's doc_count to unmapped_projects of both
\* documents when the bucket is one of the projects list, and leaves
\* unmapped_projects as it is when the bucket is a contribution bucket
C14_UndefinedCountsAsUnknownProject ==
    [][\A b \in BucketRead :
          b.key = UNKNOWN =>
             \A k \in {win, TOTAL} :
                 /\ docs'[k]["unmapped_institutions"] = docs[k]["unmapped_institutions"]
                 /\ docs'[k]["unmapped_projects"] =
                        docs[k]["unmapped_projects"]
                        + (IF pc = "projects" THEN b.doc_count ELSE 0)]_vars

\* C14 witness: the projects bucket 'UNKNOWN' with doc_count 2 has been
\* read and counted as unknown-project jobs, and is in no unmapped map
C14_Witness ==
    /\ pc = "projects"
    /\ \E b \in buckets : b.key = UNKNOWN /\ b.doc_count = 2
    /\ docs[win]["unmapped_projects"] = 2
    /\ docs[TOTAL]["unmapped_projects"] = 2
    /\ docs[TOTAL]["unmapped_institutions"] = 0
    /\ undefined_projects_last_seen > 0
    /\ DOMAIN unmapped_projects = {}

\* a key of the list has no record in the reference table it is resolved
\* through, and is not 'unknown' in any letter case
NoRecord(list, key) ==
    /\ Lower(key) # unknown
    /\ IF list = "projects" THEN Lower(key) \notin DOMAIN PROJECT_DATA
       ELSE IF Contains(key, ID_TOKEN)
            THEN SplitLast(key, "_") \notin DOMAIN INSTITUTION_DB
            ELSE Lower(key) \notin DOMAIN RESOURCE_DATA

\* C15: a step that reads a project or contribution bucket whose key has
\* no record adds the bucket's doc_count to the unmapped counters of the
\* window document and of TOTAL
C15_UnmappedAlwaysCounted ==
    [][\A b \in BucketRead :
          (pc \in {"projects", "resources", "resource_ids"} /\ NoRecord(pc, b.key)) =>
             \A k \in {win, TOTAL} :
                 docs'[k]["unmapped_projects"] + docs'[k]["unmapped_institutions"]
                   = docs[k]["unmapped_projects"] + docs[k]["unmapped_institutions"]
                     + b.doc_count]_vars

\* C16: a step that reads a project or contribution bucket whose key has
\* no record records the key in the unmapped-record map of its category
\* and adds no element to any window set or total set
C16_UnmappedAddsNoElement ==
    [][\A b \in BucketRead :
          (pc \in {"projects", "resources", "resource_ids"} /\ NoRecord(pc, b.key)) =>
             /\ b.key \in DOMAIN UnmappedMap(pc)'
             /\ raw_datasets' = raw_datasets
             /\ total_datasets' = total_datasets]_vars

\* C17: when a second run over the same windows and query results, taken
\* in another order, ends, it ends as the first run did, and if both
\* returned, with the same TOTAL document and the same total sets
C17_TotalIndependentOfOrder ==
    (rerun.mode = "second" /\ pc \in {"write_xlsx_html", "raised"}) =>
        /\ rerun.first.raised = (pc = "raised")
        /\ pc # "raised" =>
              /\ docs[TOTAL] = rerun.first.doc
              /\ total_datasets = rerun.first.sets

\* the call has ended
RefEnded == ref_pc \in {"returned", "raised"}

\* the call made fetch attempts and every one of them failed; ref_data is
\* then still the table loaded from the cache file
AllFetchesFailed ==
    /\ Len(fetched) >= 1
    /\ \A i \in 1..Len(fetched) : fetched[i] # "none"

\* C18: a call that has ended with every fetch attempt failed has returned
\* the cached table if that table is not empty, and has raised the error
\* of its last attempt if the cached table is empty or there is none
C18_FailedFetchFallsBackToCache ==
    (RefEnded /\ AllFetchesFailed) =>
        IF ref_data # {}
        THEN ref_pc = "returned" /\ ref_result = ref_data
        ELSE ref_pc = "raised" /\ ref_error = fetched[Len(fetched)]

\* C19: a call makes at most max_tries fetch attempts and none after a
\* success, and it has waited once after each failed attempt, 2^k seconds
\* after the k-th (k = 0, 1, ...)
C19_BoundedAttemptsAndBackoff ==
    /\ Len(fetched) <= max_tries
    /\ \A i \in 1..Len(fetched) : fetched[i] = "none" => i = Len(fetched)
    /\ Len(slept) = Cardinality({ i \in 1..Len(fetched) : fetched[i] # "none" })
    /\ \A k \in 1..Len(slept) : slept[k] = 2^(k - 1)
    /\ ref_pc = "loop" => tries <= max_tries

\* C20: a run is ended by the exception of a query only after five calls
\* of client.search for that query have failed
C20_QueryRetriedFiveTimes ==
    (pc = "raised" /\ error = "TransportError") => search_calls = 5

\* the argument tuples with this id for which the body of is_r1_institution
\* has run: the lru_cache gets one entry per miss
Evaluations(id) == { args \in DOMAIN r1_cache : args[1] = id }

\* the diagnostics printed for an id: every evaluation that ends in one of
\* the branches of lines 303-310 prints one
Diagnostics(id) ==
    IF is_r1_institution(id) = None THEN Evaluations(id) ELSE {}

\* C21: the body of is_r1_institution runs once per institution id in a run,
\* whatever bucket, category, lookup name or window the calls come from, and
\* the diagnostic of an id without classification is printed at most once
C21_MemoizedPerId ==
    \A args \in DOMAIN r1_cache :
        /\ Cardinality(Evaluations(args[1])) = 1
        /\ Cardinality(Diagnostics(args[1])) <= 1

\* the window documents started so far
WindowDocs == (DOMAIN docs) \ {TOTAL}

\* the sum of a field over the documents of ws, a document without the
\* field counting as 0
RECURSIVE SumOver(_, _)
SumOver(ws, f) ==
    IF ws = {} THEN 0
    ELSE LET w == CHOOSE x \in ws : TRUE
         IN (IF f \in DOMAIN docs[w] THEN docs[w][f] ELSE 0) + SumOver(ws \ {w}, f)

\* C22: at every point of the run each additive field of the TOTAL document
\* (the four sums and the two unmapped counters) is the sum of that field
\* over the window documents, a sum missing from a result counting as 0
C22_TotalIsSumOfWindows ==
    \A f \in Range(sum_names) \cup Range(count_names) :
        docs[TOTAL][f] = SumOver(WindowDocs, f)

\* C22 witness: the result of window 1 lacks total_jobs, which counts as 0,
\* and both windows hold files_transferred
C22_Witness ==
    /\ Returned
    /\ docs[1]["total_jobs"] = 0
    /\ docs[2]["total_jobs"] = 2
    /\ docs[TOTAL]["total_jobs"] = 2
    /\ docs[1]["files_transferred"] = 3
    /\ docs[2]["files_transferred"] = 3
    /\ docs[TOTAL]["files_transferred"] = 6

\* a cache file that holds a non-empty table and is younger than 20 minutes
YoungCache(f) == f.exists /\ f.loads /\ f.table # {} /\ f.age < 20 * 60

\* a cache file that is missing, unreadable, empty or older than 20 minutes
StaleCache(f) == ~f.exists \/ ~f.loads \/ f.table = {} \/ f.age > 20 * 60

\* C23: a call that finds a non-empty cache younger than 20 minutes returns
\* the cached table with no fetch and no write of the cache file; a call
\* that finds the cache missing, unreadable, empty or older than 20 minutes
\* enters the fetch loop, whose first step is a fetch attempt
C23_YoungCacheServedStaleFetched ==
    [][ /\ (ref_pc = "call" /\ YoungCache(cache_file)) =>
              /\ ref_pc' = "returned"
              /\ ref_result' = cache_file.table
              /\ fetched' = <<>>
              /\ dumped' = 0
              /\ cache_file' = cache_file
        /\ (ref_pc = "call" /\ StaleCache(cache_file)) =>
              /\ ref_pc' = "loop"
              /\ tries' < max_tries
        /\ (ref_pc = "loop" /\ fetched = <<>>) => Len(fetched') = 1
      ]_vars

\* C23 witness: a table cached 1199 seconds ago was returned with no fetch
\* and no write
C23_Witness ==
    /\ ref_pc = "returned"
    /\ ref_result = {"old"}
    /\ cache_file = [exists |-> TRUE, loads |-> TRUE, table |-> {"old"}, age |-> 1199]
    /\ fetched = <<>>
    /\ dumped = 0

\* the step reads a contribution bucket with this key
ContribRead(k) ==
    /\ pc \in {"resources", "resource_ids"}
    /\ \E b \in BucketRead : b.key = k

\* the step records the key as unmapped and adds nothing to a set
RecordedUnmapped(k) ==
    /\ k \in DOMAIN unmapped_resources'
    /\ raw_datasets' = raw_datasets
    /\ total_datasets' = total_datasets

\* the step resolves the key to this institution name
ResolvedTo(k, name) ==
    /\ unmapped_resources' = unmapped_resources
    /\ Lower(name) \notin {EmptyStr, unknown} =>
          /\ name \in raw_datasets'["institutions_contrib"]
          /\ name \in total_datasets'["institutions_contrib"]

\* C24: a contribution key that holds the id token is resolved by the id
\* after its last '_' in the institution table only: without a record for
\* that id it is recorded as unmapped, whatever the resource table holds for
\* the key. A key without the token is resolved by its lower-cased form in
\* the resource table only: without a record there it is recorded as
\* unmapped, whatever the institution table holds for the key
C24_FirstMatchWins ==
    [][ \A k \in ResourceKeys \cup ResourceIdKeys :
          (ContribRead(k) /\ k # UNKNOWN) =>
             IF Contains(k, ID_TOKEN)
             THEN IF SplitLast(k, "_") \in DOMAIN INSTITUTION_DB
                  THEN ResolvedTo(k, INSTITUTION_DB[SplitLast(k, "_")].name)
                  ELSE RecordedUnmapped(k)
             ELSE IF Lower(k) \in DOMAIN RESOURCE_DATA
                  THEN ResolvedTo(k, RESOURCE_DATA[Lower(k)].institution)
                  ELSE RecordedUnmapped(k)
      ]_vars

\* C24 witness: the key with the id token that only the resource table knows
\* and the key without the token that only the institution table knows were
\* both read and recorded as unmapped, and no contributor was counted
C24_Witness ==
    /\ Returned
    /\ (ID_TOKEN \o <<"9">>) \in DOMAIN RESOURCE_DATA
    /\ (ID_TOKEN \o <<"9">>) \in DOMAIN unmapped_resources
    /\ <<"2">> \in DOMAIN INSTITUTION_DB
    /\ <<"2">> \in DOMAIN unmapped_resources
    /\ total_datasets["institutions_contrib"] = {}

\* the classification value an institution record holds for an id: its 2025
\* value, else its 2021 value, else none
ClassificationValue(id) ==
    IF id \notin DOMAIN INSTITUTION_DB THEN None
    ELSE IF "carnegie_metadata" \notin DOMAIN INSTITUTION_DB[id] THEN None
    ELSE LET md == INSTITUTION_DB[id].carnegie_metadata
         IN IF "classification2025" \in DOMAIN md THEN md.classification2025
            ELSE IF "classification2021" \in DOMAIN md THEN md.classification2021
            ELSE None

\* C25: every call of is_r1_institution returned True if the record of its
\* id holds the R1 tier as classification value, False if it holds another
\* tier, and None if it holds no classification value
C25_DefiniteOnlyWithClassification ==
    \A args \in DOMAIN r1_cache :
        r1_cache[args] =
            IF ClassificationValue(args[1]) = None THEN None
            ELSE IF ClassificationValue(args[1]) = R1_RESEARCH_ACTIVITY THEN True
            ELSE False

\* a (year, month, day) that is a day of the calendar
ValidDate(dt) ==
    /\ dt.month \in 1..12
    /\ dt.day \in 1..DaysInMonth(dt.year, dt.month)

\* C26: for every 'now' get_timestamps never fails, every window start it
\* constructs is a valid calendar date strictly earlier than the start
\* before it, and the call returns
C26_TerminatesWithValidDates ==
    /\ [](/\ ts_pc # "ValueError"
          /\ \A i \in 1..Len(dates) : ValidDate(dates[i].start)
          /\ \A i \in 1..(Len(dates) - 1) :
                Ord(dates[i+1].start) < Ord(dates[i].start))
    /\ <>(ts_pc = "done")

\* C26 witness: for now = 2024-12-31 the call has returned twelve valid
\* starts, the anchor day 31 clipped in November and in the leap-year
\* February
C26_Witness ==
    /\ ts_pc = "done"
    /\ NOW = [year |-> 2024, month |-> 12, day |-> 31]
    /\ Len(dates) = 12
    /\ dates[1].start = [year |-> 2024, month |-> 11, day |-> 30]
    /\ dates[10].start = [year |-> 2024, month |-> 2, day |-> 28]
    /\ \A i \in 1..Len(dates) : ValidDate(dates[i].start)

\* C27: in the window being processed and in the run-wide totals the non-R1
\* contributors are contributors and the non-R1 beneficiaries are
\* beneficiaries; in every complete document non_r1_institutions_union is at
\* most institutions_union and pct_institutions_union_non_r1 is at most 1
C27_NonR1SubsetOfInstitutions ==
    /\ \A ds \in {raw_datasets, total_datasets} :
          /\ ds["non_r1_institutions_contrib"] \subseteq ds["institutions_contrib"]
          /\ ds["non_r1_institutions_benefit"] \subseteq ds["institutions_benefit"]
    /\ \A k \in DOMAIN docs :
          "pct_institutions_union_non_r1" \in DOMAIN docs[k] =>
             /\ docs[k]["non_r1_institutions_union"] <= docs[k]["institutions_union"]
             /\ docs[k]["pct_institutions_union_non_r1"][1]
                   <= docs[k]["pct_institutions_union_non_r1"][2]

\* C28: for every 'now' get_timestamps returns exactly twelve windows under
\* twelve distinct start-date keys
C28_TwelveWindows ==
    /\ Len(dates) <= 12
    /\ \A i, j \in 1..Len(dates) : dates[i].key = dates[j].key => i = j
    /\ ts_pc = "done" => Len(dates) = 12

\* C28 witness: for now = 2024-02-29 the call has returned twelve windows,
\* the oldest starting on 2023-02-28
C28_Witness ==
    /\ ts_pc = "done"
    /\ NOW = [year |-> 2024, month |-> 2, day |-> 29]
    /\ Len(dates) = 12
    /\ dates[12].start = [year |-> 2023, month |-> 2, day |-> 28]
    /\ dates[12].key = <<2023, 2, 28>>

\* C29: a call that has returned the cached table after every fetch attempt
\* failed has not written the cache file, which is then still not young: the
\* next call fetches again
C29_FailedRefreshKeepsCacheStale ==
    (ref_pc = "returned" /\ AllFetchesFailed) =>
        /\ dumped = 0
        /\ ~YoungCache(cache_file)

\* C30: for every bucket read of the contribution list whose key holds the
\* id token and is resolved by id, the classifier was called with the id of
\* the institution record that gave the name, and an institution whose
\* classification is a tier other than R1 is in non_r1_institutions_contrib
\* of the window and of the run
C30_IdPathClassifiesSameRecord ==
    pc \in {"resources", "resource_ids"} =>
        \A b \in buckets :
            (Contains(b.key, ID_TOKEN)
             /\ SplitLast(b.key, "_") \in DOMAIN INSTITUTION_DB) =>
                LET record == INSTITUTION_DB[SplitLast(b.key, "_")]
                IN /\ <<record.id, "resource", record.name>> \in DOMAIN r1_cache
                   /\ ClassificationValue(record.id) \notin {None, R1_RESEARCH_ACTIVITY} =>
                         /\ record.name \in raw_datasets["non_r1_institutions_contrib"]
                         /\ record.name \in total_datasets["non_r1_institutions_contrib"]

====
